---- MODULE Spec2Model ----
(***************************************************************************)
(* Messaging subsystem of the student marketplace client (src/app.js):    *)
(* the conversation identifier, the router's teardown of the realtime     *)
(* subscription, renderMessagesPage / openConversation and the send       *)
(* handler, over a model of the external store and its insert feed.       *)
(*                                                                         *)
(* Strings are sequences of one-character strings, compared by UTF-16      *)
(* code unit as JavaScript compares them.                                  *)
(***************************************************************************)
EXTENDS Integers, Sequences, FiniteSets, Bags, TLC

\* ------------------------------------------------------------------------
\* Bounds of the model
\* ------------------------------------------------------------------------
MaxIdLen == 2
MaxNav == 2
MaxClick == 1
MaxInsert == 1
ChatClick == 1
ChatInsert == 2
MaxRows == 3
MaxAuth == 3
MaxAuthNav == 2
MaxEmailLen == 5
MaxRatings == 2
MaxListings == 2

\* ------------------------------------------------------------------------
\* Strings
\* ------------------------------------------------------------------------
Sep == "-"
Space == " "

\* UTF-16 code unit of the characters the model uses.
Code(c) ==
  CASE c = " " -> 32
    [] c = "-" -> 45
    [] c = "1" -> 49
    [] c = "2" -> 50
    [] c = "3" -> 51
    [] c = "a" -> 97
    [] c = "b" -> 98
    [] c = "c" -> 99
    [] c = "h" -> 104
    [] OTHER -> 0

\* JavaScript's value undefined / null, kept apart from every string.
Undefined == <<"undefined">>
Null == <<"null">>

\* s < t in code unit order (the default comparison of Array.prototype.sort).
RECURSIVE StrLess(_, _)
StrLess(s, t) ==
  IF t = <<>> THEN FALSE
  ELSE IF s = <<>> THEN TRUE
  ELSE IF Code(Head(s)) < Code(Head(t)) THEN TRUE
  ELSE IF Code(Head(s)) > Code(Head(t)) THEN FALSE
  ELSE StrLess(Tail(s), Tail(t))

\* The pair left in argument order (a sort that never exchanges).
SortPairUnsorted(x, y) == <<x, y>>

\* [x, y].sort(): a stable sort of two strings, exchanged only when y < x.
SortPair(x, y) == IF StrLess(y, x) THEN <<y, x>> ELSE <<x, y>>

\* parts.join('-')
RECURSIVE Join(_)
Join(parts) ==
  IF parts = <<>> THEN <<>>
  ELSE IF Len(parts) = 1 THEN parts[1]
  ELSE parts[1] \o <<Sep>> \o Join(Tail(parts))

\* s.split('-'): always at least one part, empty parts kept.
RECURSIVE Split(_)
Split(s) ==
  IF s = <<>> THEN << <<>> >>
  ELSE IF Head(s) = Sep THEN << <<>> >> \o Split(Tail(s))
  ELSE LET rest == Split(Tail(s))
       IN  << <<Head(s)>> \o rest[1] >> \o Tail(rest)

\* arr[i] of a JavaScript array (0-based): undefined past the end.
At(arr, i) == IF i + 1 <= Len(arr) THEN arr[i + 1] ELSE Undefined

RECURSIVE TrimLeft(_)
TrimLeft(s) ==
  IF s # <<>> /\ Head(s) = Space THEN TrimLeft(Tail(s)) ELSE s

RECURSIVE TrimRight(_)
TrimRight(s) ==
  IF s # <<>> /\ s[Len(s)] = Space THEN TrimRight(SubSeq(s, 1, Len(s) - 1)) ELSE s

\* The raw value, not trimmed.
NoTrim(s) == s

\* String.prototype.trim
Trim(s) == TrimRight(TrimLeft(s))

\* s.split(sep) for a one-character separator.
RECURSIVE SplitOn(_, _)
SplitOn(s, sep) ==
  IF s = <<>> THEN << <<>> >>
  ELSE IF Head(s) = sep THEN << <<>> >> \o SplitOn(Tail(s), sep)
  ELSE LET rest == SplitOn(Tail(s), sep)
       IN  << <<Head(s)>> \o rest[1] >> \o Tail(rest)

\* String.prototype.toLowerCase on the letters the model uses.
LowerChar(c) ==
  CASE c = "A" -> "a"
    [] c = "C" -> "c"
    [] c = "H" -> "h"
    [] OTHER -> c

ToLowerCase(s) == [i \in DOMAIN s |-> LowerChar(s[i])]

\* String.prototype.endsWith
EndsWith(s, suffix) ==
  /\ Len(suffix) <= Len(s)
  /\ SubSeq(s, Len(s) - Len(suffix) + 1, Len(s)) = suffix

\* String.prototype.includes
Includes(s, sub) ==
  \E i \in 0..(Len(s) - Len(sub)) : SubSeq(s, i + 1, i + Len(sub)) = sub

DotCa == <<".", "c", "a">>

\* A check that takes whatever follows the last '@' as the domain.
validStudentEmailLastPart(email) ==
  LET parts == SplitOn(email, "@")
  IN  EndsWith(ToLowerCase(parts[Len(parts)]), DotCa)

\* validStudentEmail: exactly two parts around '@', and the lowercased
\* domain ends with '.ca'.
validStudentEmail(email) ==
  LET parts == SplitOn(email, "@")
  IN  IF Len(parts) # 2 THEN FALSE
      ELSE EndsWith(ToLowerCase(At(parts, 1)), DotCa)

\* ------------------------------------------------------------------------
\* Identity resolver
\* ------------------------------------------------------------------------
getConversationId(idA, idB) == Join(SortPair(idA, idB))

\* The counterpart taken as the first part whoever the current user is.
otherIdOfFirst(cId, me) == At(Split(cId), 0)

\* openConversation's counterpart: the first part of the id unless that is the
\* current user, then the second part.
otherIdOf(cId, me) ==
  LET ids == Split(cId)
  IN  IF At(ids, 0) = me THEN At(ids, 1) ELSE At(ids, 0)

\* ------------------------------------------------------------------------
\* The world of the model: the signed-in user, the users table, the
\* conversation ids a URL hash can carry, the texts typed in the input
\* ------------------------------------------------------------------------
Me == <<"a", "1">>
UserB == <<"b", "2">>
UserC == <<"c", "3">>
Others == {UserB, UserC}
Admins == {Me}
Users == {Me} \cup Others

\* Ids reaching the messages route through the hash: one the listing and
\* profile pages build with getConversationId, and the same pair typed by
\* hand in the other order.
HashIds ==
  {getConversationId(Me, UserB), Join(<<UserB, Me>>)}

Hashes ==
  {[route |-> "home", id |-> Null], [route |-> "messages", id |-> Null]}
    \cup {[route |-> "messages", id |-> c] : c \in HashIds}

Inputs == {<<>>, <<Space>>, <<Space, "h">>}

\* ------------------------------------------------------------------------
\* State
\* ------------------------------------------------------------------------
VARIABLES
  hash,                     \* window.location.hash, parsed: [route, id]
  currentChatSubscription,  \* 0 (null) or the feed the handle references
  feeds,                    \* every channel subscribed so far
  tasks,                    \* bag of async calls suspended at an await
  page,                     \* number of pages rendered: the current page
  view,                     \* the DOM of the current page
  messages,                 \* the store's messages table, in creation order
  notifications,            \* number of showNotification calls
  sendLog,                  \* what the send handler last did
  navs, clicks, inserts,    \* how often the user navigated, clicked, inserted
  probe,                    \* inputs and results of the identity resolver
  currentUser,              \* the session's user id, or Null
  userProfile,              \* the cached users row, or Null
  rendered,                 \* the page controller last invoked, and for whom
  authEvents,               \* how often the session changed
  signup,                   \* the sign-up form and the requests it issued
  users,                    \* the store's users table: rating aggregates
  listings,                 \* the store's listings table
  ratings,                  \* the store's ratings table
  marketplace               \* the marketplace page: filters and grid

authVars == <<currentUser, userProfile, rendered, authEvents>>

siteVars == <<signup, users, listings, ratings, marketplace>>

vars ==
  <<hash, currentChatSubscription, feeds, tasks, page, view, messages,
    notifications, sendLog, navs, clicks, inserts, probe, authVars, siteVars>>

NoHandler == [cId |-> Null, otherId |-> Null]

\* A page other than the messages page: none of the chat elements exist.
otherView ==
  [kind |-> "other", convList |-> <<>>, chatTitle |-> <<>>, requested |-> Null,
   chatMessages |-> <<>>, onsubmit |-> NoHandler, messageInput |-> <<>>]

\* The messages template freshly cloned into #content.
messagesView == [otherView EXCEPT !.kind = "messages"]

\* An async call suspended at an await.  Unused fields keep these defaults.
task(kind, pc, p, cId) ==
  [kind |-> kind, pc |-> pc, page |-> p, cId |-> cId, otherId |-> Null,
   feed |-> 0, data |-> <<>>, i |-> 0, error |-> FALSE, content |-> <<>>,
   user |-> Null, listing |-> 0]

\* One row of the messages table.
row(cId, sender, receiver, content) ==
  [conversation_id |-> cId, sender_id |-> sender, receiver_id |-> receiver,
   content |-> content]

Add(bag, t) == bag (+) SetToBag({t})
Remove(bag, t) == bag (-) SetToBag({t})
Suspended == BagToSet(tasks)

\* ------------------------------------------------------------------------
\* The external platform: the realtime channel and the messages table
\* ------------------------------------------------------------------------
\* channel.unsubscribe() is called: the channel leaves at once, the returned
\* promise settles later.
unsubscribe(fs, f) ==
  [fs EXCEPT ![f].state = IF @ = "open" THEN "leaving" ELSE @]

\* The awaited unsubscribe settled: resolved, or rejected.
settled(fs, f, threw) ==
  [fs EXCEPT ![f].state = IF threw THEN "failed" ELSE "closed"]

\* channel(...).on('postgres_changes', {filter: conversation_id=eq.cId}, cb)
\* .subscribe(): a feed bound to cId whose callback appends to the chat area
\* of the page whose openConversation call created it.
subscribe(fs, p, cId, otherId) ==
  Append(fs, [conv |-> cId, page |-> p, otherId |-> otherId,
              state |-> "open", queue |-> <<>>])

\* A committed insert is notified to every open feed whose filter matches.
emit(fs, id, cId) ==
  [f \in DOMAIN fs |->
     IF fs[f].state = "open" /\ fs[f].conv = cId
     THEN [fs[f] EXCEPT !.queue = Append(@, id)]
     ELSE fs[f]]

\* The same selection with the newest row first.
RECURSIVE listByConversationNewestFirst(_, _, _)
listByConversationNewestFirst(msgs, cId, n) ==
  IF n = 0 THEN <<>>
  ELSE (IF msgs[n].conversation_id = cId THEN <<n>> ELSE <<>>)
         \o listByConversationNewestFirst(msgs, cId, n - 1)

\* select * from messages where conversation_id = cId order by created_at
\* ascending: the ids (positions in creation order) of the rows.
RECURSIVE listByConversation(_, _, _)
listByConversation(msgs, cId, n) ==
  IF n = 0 THEN <<>>
  ELSE listByConversation(msgs, cId, n - 1)
         \o (IF msgs[n].conversation_id = cId THEN <<n>> ELSE <<>>)

\* The same selection with the oldest row first.
RECURSIVE listByParticipantOldestFirst(_, _, _)
listByParticipantOldestFirst(msgs, me, n) ==
  IF n = 0 THEN <<>>
  ELSE listByParticipantOldestFirst(msgs, me, n - 1)
         \o (IF msgs[n].sender_id = me \/ msgs[n].receiver_id = me
             THEN <<n>> ELSE <<>>)

\* select * from messages where sender_id = me or receiver_id = me order by
\* created_at descending.
RECURSIVE listByParticipant(_, _, _)
listByParticipant(msgs, me, n) ==
  IF n = 0 THEN <<>>
  ELSE (IF msgs[n].sender_id = me \/ msgs[n].receiver_id = me
        THEN <<n>> ELSE <<>>)
         \o listByParticipant(msgs, me, n - 1)

\* loadConversations' convoMap: one entry per conversation id in the order of
\* first appearance, with msgs[0] of the group as lastMsg.
RECURSIVE groupConversations(_, _, _)
groupConversations(msgs, ids, seen) ==
  IF ids = <<>> THEN <<>>
  ELSE LET c == msgs[Head(ids)].conversation_id
       IN  IF c \in seen
           THEN groupConversations(msgs, Tail(ids), seen)
           ELSE <<[cId |-> c, lastMsg |-> Head(ids)]>>
                  \o groupConversations(msgs, Tail(ids), seen \cup {c})

\* ------------------------------------------------------------------------
\* Router and messages page
\* ------------------------------------------------------------------------
\* handleRoute after its teardown: parseHash and the switch on the route.
\* The signed-in user passes the messages guard; every other route renders a
\* page without a chat.  base: the suspended calls left after this step.
routeTo(h, base) ==
  IF h.route = "messages"
  THEN [page |-> page + 1, view |-> messagesView,
        tasks |-> Add(base, task("renderMessagesPage", "list", page + 1, h.id)),
        rendered |-> [route |-> h.route, user |-> currentUser]]
  ELSE [page |-> page + 1, view |-> otherView, tasks |-> base,
        rendered |-> [route |-> h.route, user |-> currentUser]]

\* The view once openConversation(cId) was called on page p: requested
\* records the conversation most recently asked for on the page shown (it
\* is not part of the DOM).
asked(v, p, cId) == IF p = page THEN [v EXCEPT !.requested = cId] ELSE v

\* openConversation up to its first await.
openConversation(p, cId, base, v) ==
  IF currentChatSubscription # 0
  THEN [tasks |-> Add(base, [task("openConversation", "unsub", p, cId)
                               EXCEPT !.feed = currentChatSubscription]),
        feeds |-> unsubscribe(feeds, currentChatSubscription),
        view |-> asked(v, p, cId)]
  ELSE [tasks |-> Add(base, [task("openConversation", "user", p, cId)
                               EXCEPT !.otherId = otherIdOf(cId, Me)]),
        feeds |-> feeds,
        view |-> asked(v, p, cId)]

\* renderMessagesPage after `await loadConversations()`.
afterLoad(t, base, v) ==
  IF t.cId # Null
  THEN openConversation(t.page, t.cId, base, v)
  ELSE [tasks |-> base, feeds |-> feeds, view |-> v]

\* addMessageToChat on the chat area of page p: a detached page's elements
\* are not the view.
addMessageToChat(v, p, entry) ==
  IF p = page THEN [v EXCEPT !.chatMessages = Append(@, entry)] ELSE v

\* The store before the session: one message, received from UserC.
InitMessages ==
  << row(getConversationId(Me, UserC), UserC, Me, <<"h">>) >>

Idle == [step |-> "idle", a |-> <<>>, b |-> <<>>, ab |-> <<>>, ba |-> <<>>,
         parts |-> <<>>, otherOfA |-> <<>>, otherOfB |-> <<>>]

\* No users row: userProfile is null.
NoProfile == [id |-> Null, is_admin |-> FALSE]

\* The users row of u: the administrators carry is_admin.
profileOf(u) ==
  IF u \in Users THEN [id |-> u, is_admin |-> u \in Admins] ELSE NoProfile

\* The landing page, rendered over the given store, with no chat open.
InitPage(store) ==
  /\ hash = [route |-> "home", id |-> Null]
  /\ currentChatSubscription = 0
  /\ feeds = <<>>
  /\ tasks = EmptyBag
  /\ page = 1
  /\ view = otherView
  /\ messages = store
  /\ notifications = 0
  /\ sendLog = "none"
  /\ navs = 0
  /\ clicks = 0
  /\ inserts = 0

\* init() found the session of user u and loaded the profile.
InitSession(u) ==
  /\ currentUser = u
  /\ userProfile = profileOf(u)
  /\ rendered = [route |-> "home", user |-> u]
  /\ authEvents = 0

\* The sign-up form: its fields, the handler's position and the requests it
\* has issued.
form(fullName, email, password, school) ==
  [fullName |-> fullName, email |-> email, password |-> password,
   school |-> school, step |-> "form", requests |-> <<>>]

\* Pages other than the login page, the marketplace and a listing: the form
\* is empty, nobody has been rated, nothing is listed or searched.
InitForm == signup = form(<<>>, <<>>, <<>>, <<>>)

\* The users, listings and ratings tables: nobody has been rated yet.
InitTables(ls) ==
  /\ users = [u \in Users |-> [rating_sum |-> 0, rating_count |-> 0]]
  /\ listings = ls
  /\ ratings = <<>>

\* The marketplace page's search term and category filter, the position of
\* loadListings, the rows it fetched and the grid.
filters(searchInput, category) ==
  [searchInput |-> searchInput, category |-> category, step |-> "idle",
   data |-> <<>>, grid |-> <<>>]

InitMarketplace == marketplace = filters(<<>>, <<>>)

InitSite == InitForm /\ InitTables(<<>>) /\ InitMarketplace

\* The state once init() has rendered the landing page for the signed-in user.
InitApp == InitPage(InitMessages) /\ InitSession(Me) /\ InitSite

Init == InitApp /\ probe = Idle

\* The user changes the hash; the hashchange listener runs handleRoute up to
\* its first await, or to its end when there is no subscription to tear down.
navigateUpTo(h, n) ==
  /\ navs < n
  /\ navs' = navs + 1
  /\ hash' = h
  /\ IF currentChatSubscription # 0
     THEN /\ feeds' = unsubscribe(feeds, currentChatSubscription)
          /\ tasks' = Add(tasks, [task("handleRoute", "unsub", page, Null)
                                    EXCEPT !.feed = currentChatSubscription])
          /\ UNCHANGED <<currentChatSubscription, page, view, rendered>>
     ELSE LET r == routeTo(h, tasks)
          IN  /\ page' = r.page
              /\ view' = r.view
              /\ tasks' = r.tasks
              /\ rendered' = r.rendered
              /\ UNCHANGED <<currentChatSubscription, feeds>>
  /\ UNCHANGED <<messages, notifications, sendLog, clicks, inserts, probe, siteVars,
                 currentUser, userProfile, authEvents>>

navigate(h) == navigateUpTo(h, MaxNav)

\* handleRoute without the try/catch around the await: a rejection ends the
\* call before the handle is cleared and the route dispatched.
handleRouteUncaught(t) ==
  /\ t \in Suspended
  /\ t.kind = "handleRoute"
  /\ \E threw \in BOOLEAN :
       /\ feeds' = settled(feeds, t.feed, threw)
       /\ IF threw
          THEN /\ tasks' = Remove(tasks, t)
               /\ UNCHANGED <<currentChatSubscription, page, view, rendered>>
          ELSE LET r == routeTo(hash, Remove(tasks, t))
               IN  /\ currentChatSubscription' = 0
                   /\ page' = r.page
                   /\ view' = r.view
                   /\ tasks' = r.tasks
                   /\ rendered' = r.rendered
  /\ UNCHANGED <<hash, messages, notifications, sendLog, navs, clicks, inserts,
                 probe, siteVars, currentUser, userProfile, authEvents>>

\* handleRoute resumes from `await currentChatSubscription.unsubscribe()`:
\* an error is ignored, the handle is cleared, the hash is parsed and routed.
handleRoute(t) ==
  /\ t \in Suspended
  /\ t.kind = "handleRoute"
  /\ \E threw \in BOOLEAN : feeds' = settled(feeds, t.feed, threw)
  /\ currentChatSubscription' = 0
  /\ LET r == routeTo(hash, Remove(tasks, t))
     IN  /\ page' = r.page
         /\ view' = r.view
         /\ tasks' = r.tasks
         /\ rendered' = r.rendered
  /\ UNCHANGED <<hash, messages, notifications, sendLog, navs, clicks, inserts,
                 probe, siteVars, currentUser, userProfile, authEvents>>

\* The sender of the message, whoever that is.
counterpartSender(lastMsg, me) == lastMsg.sender_id

\* loadConversations' otherId: the other end of the group's first message.
counterpart(lastMsg, me) ==
  IF lastMsg.sender_id = me THEN lastMsg.receiver_id ELSE lastMsg.sender_id

\* loadConversations resumes from its messages query: an error is notified
\* and ends the load; otherwise the rows are grouped and the first
\* counterpart is fetched.
loadConversations(t) ==
  /\ t \in Suspended
  /\ t.kind = "renderMessagesPage"
  /\ t.pc = "list"
  /\ \E error \in BOOLEAN :
       LET data == groupConversations(
                     messages, listByParticipant(messages, Me, Len(messages)), {})
           done == afterLoad(t, Remove(tasks, t), view)
       IN  IF error \/ data = <<>>
           THEN /\ notifications' = notifications + (IF error THEN 1 ELSE 0)
                /\ tasks' = done.tasks
                /\ feeds' = done.feeds
                /\ view' = done.view
           ELSE /\ tasks' = Add(Remove(tasks, t),
                                [t EXCEPT !.pc = "item", !.data = data, !.i = 1])
                /\ UNCHANGED <<notifications, feeds, view>>
  /\ UNCHANGED <<hash, currentChatSubscription, page, messages, sendLog,
                 navs, clicks, inserts, probe, siteVars, authVars>>

\* loadConversations resumes from the users fetch of one group and appends
\* its list item; after the last one renderMessagesPage opens the
\* conversation named in the hash.
loadConversationsItem(t) ==
  /\ t \in Suspended
  /\ t.kind = "renderMessagesPage"
  /\ t.pc = "item"
  /\ LET g == t.data[t.i]
         lastMsg == messages[g.lastMsg]
         otherId == counterpart(lastMsg, Me)
         li == [cId |-> g.cId, otherId |-> otherId, lastMsg |-> g.lastMsg]
         listed == IF t.page = page
                   THEN [view EXCEPT !.convList = Append(@, li)] ELSE view
         done == afterLoad(t, Remove(tasks, t), listed)
     IN  IF t.i < Len(t.data)
         THEN /\ tasks' = Add(Remove(tasks, t), [t EXCEPT !.i = @ + 1])
              /\ view' = listed
              /\ UNCHANGED feeds
         ELSE /\ tasks' = done.tasks
              /\ feeds' = done.feeds
              /\ view' = done.view
  /\ UNCHANGED <<hash, currentChatSubscription, page, messages, notifications,
                 sendLog, navs, clicks, inserts, probe, siteVars, authVars>>

\* The user clicks an item of the conversation list.
clickConversationUpTo(k, n) ==
  /\ clicks < n
  /\ view.kind = "messages"
  /\ k \in DOMAIN view.convList
  /\ clicks' = clicks + 1
  /\ LET r == openConversation(page, view.convList[k].cId, tasks, view)
     IN  /\ tasks' = r.tasks
         /\ feeds' = r.feeds
         /\ view' = r.view
  /\ UNCHANGED <<hash, currentChatSubscription, page, messages,
                 notifications, sendLog, navs, inserts, probe, siteVars, authVars>>

clickConversation(k) == clickConversationUpTo(k, MaxClick)

\* openConversation resumes from `await currentChatSubscription.unsubscribe()`:
\* a rejection ends the call, otherwise the handle is cleared and the
\* counterpart's profile is requested.
openConversationUnsubscribed(t) ==
  /\ t \in Suspended
  /\ t.kind = "openConversation"
  /\ t.pc = "unsub"
  /\ \E threw \in BOOLEAN :
       /\ feeds' = settled(feeds, t.feed, threw)
       /\ IF threw
          THEN /\ tasks' = Remove(tasks, t)
               /\ UNCHANGED currentChatSubscription
          ELSE /\ tasks' = Add(Remove(tasks, t),
                               [t EXCEPT !.pc = "user",
                                         !.otherId = otherIdOf(t.cId, Me)])
               /\ currentChatSubscription' = 0
  /\ UNCHANGED <<hash, page, view, messages, notifications, sendLog, navs,
                 clicks, inserts, probe, siteVars, authVars>>

Loading == [id |-> 0, via |-> "loading"]

\* openConversation resumes from the profile fetch: the title names the
\* counterpart (or 'Conversation'), the chat area shows the placeholder and
\* the history is requested.
openConversationUser(t) ==
  /\ t \in Suspended
  /\ t.kind = "openConversation"
  /\ t.pc = "user"
  /\ view' = IF t.page = page
             THEN [view EXCEPT
                     !.chatTitle = IF t.otherId \in Users THEN t.otherId
                                   ELSE <<"Conversation">>,
                     !.chatMessages = <<Loading>>]
             ELSE view
  /\ tasks' = Add(Remove(tasks, t), [t EXCEPT !.pc = "msgs"])
  /\ UNCHANGED <<hash, currentChatSubscription, feeds, page, messages,
                 notifications, sendLog, navs, clicks, inserts, probe, siteVars, authVars>>

\* The store answers the history query with the rows committed so far.
historyAnswered(t) ==
  /\ t \in Suspended
  /\ t.kind = "openConversation"
  /\ t.pc = "msgs"
  /\ tasks' = Add(Remove(tasks, t),
                  [t EXCEPT !.pc = "history",
                            !.data = listByConversation(messages, t.cId,
                                                        Len(messages))])
  /\ UNCHANGED <<hash, currentChatSubscription, feeds, page, view, messages,
                 notifications, sendLog, navs, clicks, inserts, probe, siteVars, authVars>>

\* openConversation resumes from the history query: renders the rows,
\* subscribes to the conversation's inserts, stores the channel in the handle
\* and installs the send handler.
openConversationHistory(t) ==
  /\ t \in Suspended
  /\ t.kind = "openConversation"
  /\ t.pc = "history"
  /\ view' = IF t.page = page
             THEN [view EXCEPT
                     !.chatMessages =
                        [k \in 1..Len(t.data) |->
                           [id |-> t.data[k], via |-> "history"]],
                     !.onsubmit = [cId |-> t.cId, otherId |-> t.otherId]]
             ELSE view
  /\ feeds' = subscribe(feeds, t.page, t.cId, t.otherId)
  /\ currentChatSubscription' = Len(feeds) + 1
  /\ tasks' = Remove(tasks, t)
  /\ UNCHANGED <<hash, page, messages, notifications, sendLog, navs, clicks,
                 inserts, probe, siteVars, authVars>>

\* The user types a text into the empty message input.
typeMessage(v) ==
  /\ view.kind = "messages"
  /\ view.messageInput = <<>>
  /\ v # <<>>
  /\ view' = [view EXCEPT !.messageInput = v]
  /\ UNCHANGED <<hash, currentChatSubscription, feeds, tasks, page, messages,
                 notifications, sendLog, navs, clicks, inserts, probe, siteVars, authVars>>

\* messageForm.onsubmit up to its await: empty trimmed content returns,
\* otherwise the insert is sent.
submitMessageUpTo(n) ==
  /\ view.kind = "messages"
  /\ view.onsubmit # NoHandler
  /\ LET contentVal == Trim(view.messageInput)
     IN  IF contentVal = <<>>
         THEN /\ sendLog' = "empty"
              /\ UNCHANGED <<tasks, inserts>>
         ELSE /\ inserts < n
              /\ inserts' = inserts + 1
              /\ sendLog' = "sent"
              /\ tasks' = Add(tasks,
                              [task("send", "insert", page, view.onsubmit.cId)
                                 EXCEPT !.otherId = view.onsubmit.otherId,
                                        !.content = contentVal])
  /\ UNCHANGED <<hash, currentChatSubscription, feeds, page, view, messages,
                 notifications, navs, clicks, probe, siteVars, authVars>>

submitMessage == submitMessageUpTo(MaxInsert)

\* A store that writes the sent row over the newest row of the table.
storeUpsert(t) ==
  /\ t \in Suspended
  /\ t.kind = "send"
  /\ t.pc = "insert"
  /\ messages # <<>>
  /\ messages' = [messages EXCEPT
                    ![Len(messages)] = row(t.cId, Me, t.otherId, t.content)]
  /\ feeds' = emit(feeds, Len(messages), t.cId)
  /\ tasks' = Add(Remove(tasks, t), [t EXCEPT !.pc = "result"])
  /\ UNCHANGED <<hash, currentChatSubscription, page, view, notifications,
                 sendLog, navs, clicks, inserts, probe, siteVars, authVars>>

\* The store answers the insert: it commits the row and notifies the feeds,
\* or returns an error (the receiver must reference a user; the network may
\* fail).
storeInsert(t) ==
  /\ t \in Suspended
  /\ t.kind = "send"
  /\ t.pc = "insert"
  /\ \E ok \in BOOLEAN :
       IF ok
       THEN /\ t.otherId \in Users
            /\ messages' = Append(messages, row(t.cId, Me, t.otherId, t.content))
            /\ feeds' = emit(feeds, Len(messages) + 1, t.cId)
            /\ tasks' = Add(Remove(tasks, t), [t EXCEPT !.pc = "result"])
       ELSE /\ tasks' = Add(Remove(tasks, t),
                            [t EXCEPT !.pc = "result", !.error = TRUE])
            /\ UNCHANGED <<messages, feeds>>
  /\ UNCHANGED <<hash, currentChatSubscription, page, view, notifications,
                 sendLog, navs, clicks, inserts, probe, siteVars, authVars>>

\* A send handler that also appends the sent text to the chat area itself.
sendResumeEcho(t) ==
  /\ t \in Suspended
  /\ t.kind = "send"
  /\ t.pc = "result"
  /\ view' = IF t.page = page
             THEN [view EXCEPT !.messageInput = <<>>,
                               !.chatMessages = Append(@, [id |-> 0, via |-> "echo"])]
             ELSE view
  /\ sendLog' = IF t.error THEN "failed" ELSE "done"
  /\ tasks' = Remove(tasks, t)
  /\ UNCHANGED <<hash, currentChatSubscription, feeds, page, messages,
                 notifications, navs, clicks, inserts, probe, siteVars, authVars>>

\* messageForm.onsubmit resumes from the insert and clears the input.
sendResume(t) ==
  /\ t \in Suspended
  /\ t.kind = "send"
  /\ t.pc = "result"
  /\ view' = IF t.page = page THEN [view EXCEPT !.messageInput = <<>>] ELSE view
  /\ sendLog' = IF t.error THEN "failed" ELSE "done"
  /\ tasks' = Remove(tasks, t)
  /\ UNCHANGED <<hash, currentChatSubscription, feeds, page, messages,
                 notifications, navs, clicks, inserts, probe, siteVars, authVars>>

\* The counterpart's client commits a message to its conversation with the
\* user.
remoteInsertUpTo(from, n) ==
  /\ inserts < n
  /\ inserts' = inserts + 1
  /\ LET cId == getConversationId(from, Me)
     IN  /\ messages' = Append(messages, row(cId, from, Me, <<"h">>))
         /\ feeds' = emit(feeds, Len(messages) + 1, cId)
  /\ UNCHANGED <<hash, currentChatSubscription, tasks, page, view,
                 notifications, sendLog, navs, clicks, probe, siteVars, authVars>>

remoteInsert(from) == remoteInsertUpTo(from, MaxInsert)

\* An open feed delivers its next insert event to its callback.
deliver(f) ==
  /\ f \in DOMAIN feeds
  /\ feeds[f].state = "open"
  /\ feeds[f].queue # <<>>
  /\ feeds' = [feeds EXCEPT ![f].queue = Tail(@)]
  /\ view' = addMessageToChat(view, feeds[f].page,
                              [id |-> Head(feeds[f].queue), via |-> "feed"])
  /\ UNCHANGED <<hash, currentChatSubscription, tasks, page, messages,
                 notifications, sendLog, navs, clicks, inserts, probe, siteVars, authVars>>

Next ==
  \/ \E h \in Hashes : navigate(h)
  \/ \E t \in Suspended : handleRoute(t)
  \/ \E t \in Suspended : loadConversations(t)
  \/ \E t \in Suspended : loadConversationsItem(t)
  \/ \E k \in DOMAIN view.convList : clickConversation(k)
  \/ \E t \in Suspended : openConversationUnsubscribed(t)
  \/ \E t \in Suspended : openConversationUser(t)
  \/ \E t \in Suspended : historyAnswered(t)
  \/ \E t \in Suspended : openConversationHistory(t)
  \/ \E v \in Inputs : typeMessage(v)
  \/ submitMessage
  \/ \E t \in Suspended : storeInsert(t)
  \/ \E t \in Suspended : sendResume(t)
  \/ \E from \in Others : remoteInsert(from)
  \/ \E f \in DOMAIN feeds : deliver(f)

Spec == Init /\ [][Next]_vars

\* ------------------------------------------------------------------------
\* The identity resolver on its own: every pair of identifiers
\* ------------------------------------------------------------------------
IdAlphabet == {"-", "1", "a", "b"}
Ids == UNION {[1..n -> IdAlphabet] : n \in 0..MaxIdLen}

InitId ==
  /\ InitApp
  /\ probe \in {[Idle EXCEPT !.step = "input", !.a = a, !.b = b] : a, b \in Ids}

\* Each participant computes the conversation id, naming itself first (the
\* listing and profile pages call getConversationId(currentUser.id, other)).
resolveIds ==
  /\ probe.step = "input"
  /\ probe' = [probe EXCEPT !.step = "resolved",
                            !.ab = getConversationId(probe.a, probe.b),
                            !.ba = getConversationId(probe.b, probe.a)]
  /\ UNCHANGED <<hash, currentChatSubscription, feeds, tasks, page, view,
                 messages, notifications, sendLog, navs, clicks, inserts,
                 authVars, siteVars>>

\* openConversation's split of the id, and the counterpart it derives when
\* the current user is a, and when it is b.
deriveCounterpart ==
  /\ probe.step = "resolved"
  /\ probe' = [probe EXCEPT !.step = "derived",
                            !.parts = Split(probe.ab),
                            !.otherOfA = otherIdOf(probe.ab, probe.a),
                            !.otherOfB = otherIdOf(probe.ab, probe.b)]
  /\ UNCHANGED <<hash, currentChatSubscription, feeds, tasks, page, view,
                 messages, notifications, sendLog, navs, clicks, inserts,
                 authVars, siteVars>>

NextId == resolveIds \/ deriveCounterpart

SpecId == InitId /\ [][NextId]_vars

\* ------------------------------------------------------------------------
\* One messages page over a conversation with a stored history
\* ------------------------------------------------------------------------
\* The store before the session: two messages exchanged with UserB and one
\* received from UserC.
ChatMessages ==
  << row(getConversationId(Me, UserB), UserB, Me, <<"h">>),
     row(getConversationId(Me, UserC), UserC, Me, <<"h">>),
     row(getConversationId(Me, UserB), Me, UserB, <<"h">>) >>

ChatHashes ==
  {[route |-> "messages", id |-> Null],
   [route |-> "messages", id |-> getConversationId(Me, UserB)]}

InitChat ==
  InitPage(ChatMessages) /\ InitSession(Me) /\ InitSite /\ probe = Idle

\* The user opens the messages page from the landing page.
openMessages(h) == navs = 0 /\ navigate(h)

clickChat(k) == clickConversationUpTo(k, ChatClick)

submitChat == submitMessageUpTo(ChatInsert)

remoteChat(from) == remoteInsertUpTo(from, ChatInsert)

NextChat ==
  \/ \E h \in ChatHashes : openMessages(h)
  \/ \E t \in Suspended : loadConversations(t)
  \/ \E t \in Suspended : loadConversationsItem(t)
  \/ \E k \in DOMAIN view.convList : clickChat(k)
  \/ \E t \in Suspended : openConversationUnsubscribed(t)
  \/ \E t \in Suspended : openConversationUser(t)
  \/ \E t \in Suspended : historyAnswered(t)
  \/ \E t \in Suspended : openConversationHistory(t)
  \/ \E v \in Inputs : typeMessage(v)
  \/ submitChat
  \/ \E t \in Suspended : storeInsert(t)
  \/ \E t \in Suspended : sendResume(t)
  \/ \E from \in Others : remoteChat(from)
  \/ \E f \in DOMAIN feeds : deliver(f)

SpecChat == InitChat /\ [][NextChat]_vars

\* The same page when the user clicks no list item: the conversation named
\* in the hash is opened by the page itself, once.
NextHistory ==
  \/ \E h \in ChatHashes : openMessages(h)
  \/ \E t \in Suspended : loadConversations(t)
  \/ \E t \in Suspended : loadConversationsItem(t)
  \/ \E t \in Suspended : openConversationUser(t)
  \/ \E t \in Suspended : historyAnswered(t)
  \/ \E t \in Suspended : openConversationHistory(t)
  \/ \E v \in Inputs : typeMessage(v)
  \/ submitChat
  \/ \E t \in Suspended : storeInsert(t)
  \/ \E t \in Suspended : sendResume(t)
  \/ \E from \in Others : remoteChat(from)
  \/ \E f \in DOMAIN feeds : deliver(f)

SpecHistory == InitChat /\ [][NextHistory]_vars

\* ------------------------------------------------------------------------
\* The conversation list over every small store
\* ------------------------------------------------------------------------
\* A row the user received from or sent to a counterpart, or a row exchanged
\* by two other users.
Rows ==
  {row(getConversationId(Me, o), o, Me, <<"h">>) : o \in Others}
    \cup {row(getConversationId(Me, o), Me, o, <<"h">>) : o \in Others}
    \cup {row(getConversationId(UserB, UserC), UserB, UserC, <<"h">>)}

Stores == UNION {[1..n -> Rows] : n \in 0..MaxRows}

InitList ==
  \E store \in Stores :
    InitPage(store) /\ InitSession(Me) /\ InitSite /\ probe = Idle

\* The user opens the messages page with no conversation in the hash.
openList == openMessages([route |-> "messages", id |-> Null])

NextList ==
  \/ openList
  \/ \E t \in Suspended : loadConversations(t)
  \/ \E t \in Suspended : loadConversationsItem(t)

SpecList == InitList /\ [][NextList]_vars

\* ------------------------------------------------------------------------
\* The router's guards under a changing session
\* ------------------------------------------------------------------------
\* Only which page controller handleRoute invokes is followed here; no chat
\* is open, so handleRoute runs to its end without awaiting.
Protected == {"new-listing", "messages", "saved"}
Routes == {"home", "login", "admin"} \cup Protected
Accounts == {Me, UserB}

\* A switch that guards new-listing and messages but not saved.
dispatchSavedOpen(route, user, profile) ==
  IF route \in Protected \ {"saved"}
  THEN IF user = Null
       THEN [controller |-> "none", to |-> "login"]
       ELSE [controller |-> route, to |-> "none"]
  ELSE IF route = "admin"
  THEN IF user = Null \/ profile = NoProfile \/ ~profile.is_admin
       THEN [controller |-> "none", to |-> "home"]
       ELSE [controller |-> "admin", to |-> "none"]
  ELSE [controller |-> route, to |-> "none"]

\* handleRoute's switch for the signed-in state it reads: the controller it
\* invokes, or the route it redirects to.
dispatch(route, user, profile) ==
  IF route \in Protected
  THEN IF user = Null
       THEN [controller |-> "none", to |-> "login"]
       ELSE [controller |-> route, to |-> "none"]
  ELSE IF route = "admin"
  THEN IF user = Null \/ profile = NoProfile \/ ~profile.is_admin
       THEN [controller |-> "none", to |-> "home"]
       ELSE [controller |-> "admin", to |-> "none"]
  ELSE [controller |-> route, to |-> "none"]

hashchangeEvent == task("hashchange", "event", 0, Null)

\* handleRoute with no subscription held, reading the given session: a
\* denied route is notified and redirected by assigning the hash (a
\* hashchange event follows); otherwise the controller is invoked.
handleRouteFor(user, profile, base) ==
  LET d == dispatch(hash.route, user, profile)
  IN  IF d.controller = "none"
      THEN /\ notifications' = notifications + 1
           /\ hash' = [route |-> d.to, id |-> Null]
           /\ tasks' = Add(base, hashchangeEvent)
           /\ UNCHANGED <<page, view, rendered>>
      ELSE /\ page' = page + 1
           /\ view' = [otherView EXCEPT !.kind = d.controller]
           /\ rendered' = [route |-> d.controller, user |-> user]
           /\ tasks' = base
           /\ UNCHANGED <<hash, notifications>>

\* The user follows a link or edits the address: the hash changes and a
\* hashchange event is queued.
setHash(r) ==
  /\ navs < MaxAuthNav
  /\ r # hash.route
  /\ navs' = navs + 1
  /\ hash' = [route |-> r, id |-> Null]
  /\ tasks' = Add(tasks, hashchangeEvent)
  /\ UNCHANGED <<currentChatSubscription, feeds, page, view, messages,
                 notifications, sendLog, clicks, inserts, probe, siteVars, authVars>>

\* The hashchange listener: handleRoute.
hashchange(t) ==
  /\ t \in Suspended
  /\ t.kind = "hashchange"
  /\ handleRouteFor(currentUser, userProfile, Remove(tasks, t))
  /\ UNCHANGED <<currentChatSubscription, feeds, messages, sendLog, navs,
                 clicks, inserts, probe, siteVars, currentUser, userProfile, authEvents>>

\* The onAuthStateChange callback up to its await: currentUser is replaced;
\* a signed-out session clears the profile and routes, a signed-in one
\* requests the user's row.
authChange(u) ==
  /\ authEvents < MaxAuth
  /\ authEvents' = authEvents + 1
  /\ currentUser' = u
  /\ IF u = Null
     THEN /\ userProfile' = NoProfile
          /\ handleRouteFor(u, NoProfile, tasks)
     ELSE /\ tasks' = Add(tasks, [task("authChange", "profile", 0, Null)
                                    EXCEPT !.user = u])
          /\ UNCHANGED <<hash, page, view, notifications, userProfile,
                         rendered>>
  /\ UNCHANGED <<currentChatSubscription, feeds, messages, sendLog, navs,
                 clicks, inserts, probe, siteVars>>

\* The callback resumes from the users query: the row (or null on an error)
\* becomes userProfile, then handleRoute runs.
profileFetched(t) ==
  /\ t \in Suspended
  /\ t.kind = "authChange"
  /\ \E profile \in {profileOf(t.user), NoProfile} :
       /\ userProfile' = profile
       /\ handleRouteFor(currentUser, profile, Remove(tasks, t))
  /\ UNCHANGED <<currentChatSubscription, feeds, messages, sendLog, navs,
                 clicks, inserts, probe, siteVars, currentUser, authEvents>>

InitAuth ==
  \E u \in Accounts \cup {Null} :
    InitPage(InitMessages) /\ InitSession(u) /\ InitSite /\ probe = Idle

NextAuth ==
  \/ \E r \in Routes : setHash(r)
  \/ \E t \in Suspended : hashchange(t)
  \/ \E u \in Accounts \cup {Null} : authChange(u)
  \/ \E t \in Suspended : profileFetched(t)

SpecAuth == InitAuth /\ [][NextAuth]_vars

\* ------------------------------------------------------------------------
\* The sign-up form over every small input
\* ------------------------------------------------------------------------
EmailAlphabet == {"@", ".", "c", "a", "A"}
Emails == UNION {[1..n -> EmailAlphabet] : n \in 0..MaxEmailLen}
Names == {<<>>, <<Space>>, <<"h">>}
Passwords == {<<>>, <<Space>>}
Schools == {<<>>, <<"h">>}

InitSignup ==
  /\ InitPage(InitMessages) /\ InitSession(Null) /\ probe = Idle
  /\ InitTables(<<>>) /\ InitMarketplace
  /\ \E n \in Names, e \in Emails, pw \in Passwords, sc \in Schools :
       signup = form(n, e, pw, sc)

\* The sign-up form's submit handler up to its first await: a missing
\* required field or an invalid address is notified and nothing is sent;
\* otherwise auth.signUp is requested.
submitSignup ==
  /\ signup.step = "form"
  /\ LET fullName == Trim(signup.fullName)
         email == Trim(signup.email)
         password == signup.password
         school == Trim(signup.school)
     IN  IF fullName = <<>> \/ email = <<>> \/ password = <<>> \/ school = <<>>
         THEN /\ notifications' = notifications + 1
              /\ signup' = [signup EXCEPT !.step = "missing"]
         ELSE IF ~validStudentEmail(email)
         THEN /\ notifications' = notifications + 1
              /\ signup' = [signup EXCEPT !.step = "invalid"]
         ELSE /\ signup' = [signup EXCEPT
                              !.step = "signUp",
                              !.requests = Append(@, [to |-> "signUp",
                                                      email |-> email])]
              /\ UNCHANGED notifications
  /\ UNCHANGED <<hash, currentChatSubscription, feeds, tasks, page, view,
                 messages, sendLog, navs, clicks, inserts, probe, authVars,
                 users, listings, ratings, marketplace>>

\* auth.signUp answers: an error is notified; with a user in the answer the
\* users row is inserted; without one the handler only notifies.
signUpAnswered ==
  /\ signup.step = "signUp"
  /\ \E answer \in {"error", "user", "none"} :
       IF answer = "user"
       THEN /\ signup' = [signup EXCEPT
                            !.step = "insert",
                            !.requests =
                               Append(@, [to |-> "users",
                                          email |-> Trim(signup.email)])]
            /\ UNCHANGED notifications
       ELSE /\ signup' = [signup EXCEPT !.step = answer]
            /\ notifications' = notifications + 1
  /\ UNCHANGED <<hash, currentChatSubscription, feeds, tasks, page, view,
                 messages, sendLog, navs, clicks, inserts, probe, authVars,
                 users, listings, ratings, marketplace>>

\* The users insert settles (a rejection is ignored) and the account is
\* announced.
usersInserted ==
  /\ signup.step = "insert"
  /\ signup' = [signup EXCEPT !.step = "created"]
  /\ notifications' = notifications + 1
  /\ UNCHANGED <<hash, currentChatSubscription, feeds, tasks, page, view,
                 messages, sendLog, navs, clicks, inserts, probe, authVars,
                 users, listings, ratings, marketplace>>

NextSignup == submitSignup \/ signUpAnswered \/ usersInserted

SpecSignup == InitSignup /\ [][NextSignup]_vars

\* ------------------------------------------------------------------------
\* Rating a listing
\* ------------------------------------------------------------------------
\* One row of the listings table.
listing(owner, title, description, category, deleted) ==
  [owner_id |-> owner, title |-> title, description |-> description,
   category |-> category, is_deleted |-> deleted,
   rating_sum |-> 0, rating_count |-> 0]

\* Two listings, one of each other user.
RatedListings ==
  << listing(UserB, <<"h">>, Null, <<>>, FALSE),
     listing(UserC, <<"a">>, Null, <<>>, FALSE) >>

Stars == 0..5

InitRating ==
  /\ InitPage(InitMessages) /\ InitSession(Me) /\ probe = Idle
  /\ InitForm /\ InitTables(RatedListings) /\ InitMarketplace

\* The user, on the details page of listing l just rendered, selects a
\* number of stars and submits the modal: with no star selected the handler
\* alerts and returns, otherwise the ratings insert is requested.  The
\* listing object the modal holds is the row the page fetched.
submitRating(l, selectedRating) ==
  /\ Len(ratings) + BagCardinality(tasks) < MaxRatings
  /\ l \in DOMAIN listings
  /\ IF selectedRating < 1
     THEN UNCHANGED tasks
     ELSE tasks' = Add(tasks, [task("rating", "insert", page, Null)
                                 EXCEPT !.listing = l,
                                        !.data = listings[l],
                                        !.i = selectedRating])
  /\ UNCHANGED <<hash, currentChatSubscription, feeds, page, view, messages,
                 notifications, sendLog, navs, clicks, inserts, probe,
                 authVars, siteVars>>

\* The ratings insert is committed; the handler requests the update of the
\* listing's aggregate.
ratingInserted(t) ==
  /\ t \in Suspended
  /\ t.kind = "rating"
  /\ t.pc = "insert"
  /\ ratings' = Append(ratings, [listing_id |-> t.listing,
                                  user_id |-> currentUser, rating |-> t.i])
  /\ tasks' = Add(Remove(tasks, t), [t EXCEPT !.pc = "update"])
  /\ UNCHANGED <<hash, currentChatSubscription, feeds, page, view, messages,
                 notifications, sendLog, navs, clicks, inserts, probe,
                 authVars, signup, users, listings, marketplace>>

\* The listings update is committed with the sum and count computed from the
\* listing object the modal holds; the handler notifies and renders the
\* details page again.
listingRated(t) ==
  /\ t \in Suspended
  /\ t.kind = "rating"
  /\ t.pc = "update"
  /\ listings' = [listings EXCEPT
                    ![t.listing].rating_sum = t.data.rating_sum + t.i,
                    ![t.listing].rating_count = t.data.rating_count + 1]
  /\ notifications' = notifications + 1
  /\ tasks' = Remove(tasks, t)
  /\ UNCHANGED <<hash, currentChatSubscription, feeds, page, view, messages,
                 sendLog, navs, clicks, inserts, probe, authVars, signup,
                 users, ratings, marketplace>>

NextRating ==
  \/ \E l \in DOMAIN listings, r \in Stars : submitRating(l, r)
  \/ \E t \in Suspended : ratingInserted(t)
  \/ \E t \in Suspended : listingRated(t)

SpecRating == InitRating /\ [][NextRating]_vars

\* ------------------------------------------------------------------------
\* Marketplace search over every small listings table
\* ------------------------------------------------------------------------
Titles == {<<"h">>, <<"a">>, <<"H", "a">>}
Descriptions == {Null, <<"h">>, <<"a">>}
Categories == {<<"b">>, <<"c">>}
Terms == {<<>>, <<Space>>, <<"h">>, <<"H">>}

Listed ==
  {listing(UserB, t, d, c, del) :
     t \in Titles, d \in Descriptions, c \in Categories, del \in BOOLEAN}

Tables == UNION {[1..n -> Listed] : n \in 0..MaxListings}

InitSearch ==
  /\ InitPage(InitMessages) /\ InitSession(Me) /\ probe = Idle
  /\ InitForm
  /\ \E ls \in Tables : InitTables(ls)
  /\ \E term \in Terms, c \in Categories \cup {<<>>} :
       marketplace = filters(term, c)

\* column ilike '%value%': a case-insensitive substring match.
ilike(column, value) == Includes(ToLowerCase(column), ToLowerCase(value))

\* The request loadListings builds: not deleted, the category when one is
\* chosen, and the title matching the trimmed search term when there is one.
selected(item, searchTerm, category) ==
  /\ ~item.is_deleted
  /\ category # <<>> => item.category = category
  /\ searchTerm # <<>> => ilike(item.title, searchTerm)

\* The rows of the table the request selects, newest first.
RECURSIVE query(_, _, _, _)
query(ls, searchTerm, category, n) ==
  IF n = 0 THEN <<>>
  ELSE (IF selected(ls[n], searchTerm, category) THEN <<n>> ELSE <<>>)
         \o query(ls, searchTerm, category, n - 1)

\* results.filter(...): the fetched rows whose title or description
\* includes the lowercased term.
RECURSIVE refine(_, _, _)
refine(ls, ids, lower) ==
  IF ids = <<>> THEN <<>>
  ELSE (IF \/ Includes(ToLowerCase(ls[Head(ids)].title), lower)
           \/ /\ ls[Head(ids)].description # Null
              /\ Includes(ToLowerCase(ls[Head(ids)].description), lower)
        THEN <<Head(ids)>> ELSE <<>>)
         \o refine(ls, Tail(ids), lower)

\* loadListings up to its await: the grid is emptied and the request sent.
loadListings ==
  /\ marketplace.step = "idle"
  /\ marketplace' = [marketplace EXCEPT !.step = "query", !.grid = <<>>]
  /\ UNCHANGED <<hash, currentChatSubscription, feeds, tasks, page, view,
                 messages, notifications, sendLog, navs, clicks, inserts,
                 probe, authVars, signup, users, listings, ratings>>

\* loadListings resumes: an error is notified; otherwise the rows are
\* refined locally when there is a search term, and rendered.
listingsAnswered ==
  /\ marketplace.step = "query"
  /\ \E error \in BOOLEAN :
       IF error
       THEN /\ notifications' = notifications + 1
            /\ marketplace' = [marketplace EXCEPT !.step = "failed"]
       ELSE LET searchTerm == Trim(marketplace.searchInput)
                data == query(listings, searchTerm, marketplace.category,
                              Len(listings))
                results == IF searchTerm # <<>>
                           THEN refine(listings, data, ToLowerCase(searchTerm))
                           ELSE data
            IN  /\ marketplace' = [marketplace EXCEPT !.step = "rendered",
                                                      !.data = data,
                                                      !.grid = results]
                /\ UNCHANGED notifications
  /\ UNCHANGED <<hash, currentChatSubscription, feeds, tasks, page, view,
                 messages, sendLog, navs, clicks, inserts, probe, authVars,
                 signup, users, listings, ratings>>

NextSearch == loadListings \/ listingsAnswered

SpecSearch == InitSearch /\ [][NextSearch]_vars

\* ------------------------------------------------------------------------
\* Properties
\* ------------------------------------------------------------------------
LiveFeeds == {f \in DOMAIN feeds : feeds[f].state = "open"}
HasSep(s) == \E i \in DOMAIN s : s[i] = Sep
Blank(s) == \A i \in DOMAIN s : s[i] = Space

\* C1: at every instant at most one feed is subscribed and not yet asked to
\* unsubscribe, whatever the interleaving of handleRoute and openConversation.
AtMostOneLiveFeed == Cardinality(LiveFeeds) <= 1

\* C2: a feed never outlives its page: every live feed was created by an
\* openConversation call of the page currently rendered.
NoFeedOutlivesPage == \A f \in LiveFeeds : feeds[f].page = page

\* C3: once the user has switched to another conversation, an insert into
\* the one left is not appended to the chat area: every event a feed delivers
\* into the page shown is an insert into the conversation the user opened
\* last.
OnlyRequestedConversationAppended ==
  [][\A f \in DOMAIN feeds :
       (deliver(f) /\ feeds[f].page = page)
         => messages[Head(feeds[f].queue)].conversation_id = view.requested]_vars

\* C4: both participants resolve the same conversation id:
\* getConversationId(A, B) = getConversationId(B, A).
ConversationIdSymmetric ==
  probe.step \in {"resolved", "derived"} => probe.ab = probe.ba

\* C4 witness: two different identifiers given in descending order, resolved
\* to the id that names the smaller one first.
ConversationIdSymmetricWitness ==
  /\ probe.step = "resolved"
  /\ probe.a # probe.b
  /\ StrLess(probe.b, probe.a)
  /\ probe.ab = probe.b \o <<Sep>> \o probe.a

\* C5: for identifiers without the separator, the id splits back into exactly
\* the two participants and each participant derives the other one as its
\* counterpart.
CounterpartRoundTrip ==
  (probe.step = "derived" /\ ~HasSep(probe.a) /\ ~HasSep(probe.b))
    => /\ Len(probe.parts) = 2
       /\ {probe.parts[1], probe.parts[2]} = {probe.a, probe.b}
       /\ probe.otherOfA = probe.b
       /\ probe.otherOfB = probe.a

\* C5 witness: two identifiers without the separator, the first the greater,
\* each derived as the other's counterpart.
CounterpartRoundTripWitness ==
  /\ probe.step = "derived"
  /\ ~HasSep(probe.a)
  /\ ~HasSep(probe.b)
  /\ StrLess(probe.b, probe.a)
  /\ probe.otherOfA = probe.b
  /\ probe.otherOfB = probe.a

\* C6: every row of the messages table has conversation_id equal to its
\* sender_id and receiver_id sorted and joined with '-'.
ConversationIdIsSortedJoin ==
  \A n \in DOMAIN messages :
    messages[n].conversation_id
      = getConversationId(messages[n].sender_id, messages[n].receiver_id)

\* C7: a submit with empty or whitespace-only input sends no request (no call
\* is left awaiting the store, no row is written) and leaves the input as it
\* was.
EmptySubmitDoesNothing ==
  [][(submitMessage /\ Blank(view.messageInput))
       => UNCHANGED <<tasks, messages, feeds, view>>]_vars

\* C7 witness: the handler returned on a whitespace-only input, which is
\* still in the field.
EmptySubmitWitness ==
  /\ sendLog = "empty"
  /\ view.messageInput = <<Space>>

\* C8: when the insert returned an error, the send handler leaves the typed
\* content in the input.
FailedInsertKeepsInput ==
  [][\A t \in Suspended :
       (sendResume(t) /\ t.error) => view'.messageInput = view.messageInput]_vars

\* C9: when the insert returned an error, the send handler shows a
\* notification.
FailedInsertIsNotified ==
  [][\A t \in Suspended :
       (sendResume(t) /\ t.error) => notifications' > notifications]_vars

\* C10: the send handler never writes to the chat area: no step of the submit
\* handler or of the store's answer changes it, and it changes only when a
\* page is rendered, when openConversation renders its placeholder or the
\* history, or when a feed delivers an insert event.
SentMessageAppearsOnlyViaFeed ==
  [][/\ (submitMessage \/ \E t \in Suspended : storeInsert(t) \/ sendResume(t))
          => view'.chatMessages = view.chatMessages
     /\ view'.chatMessages # view.chatMessages
          => \/ page' # page
             \/ \E t \in Suspended : openConversationUser(t)
             \/ \E t \in Suspended : openConversationHistory(t)
             \/ \E f \in DOMAIN feeds : deliver(f)]_vars

\* C10 witness: the user's own message, sent in this session, is in the chat
\* area through a feed event, the send handler having completed.
SentMessageViaFeedWitness ==
  \E k \in DOMAIN view.chatMessages :
    /\ view.chatMessages[k].via = "feed"
    /\ view.chatMessages[k].id > Len(InitMessages)
    /\ messages[view.chatMessages[k].id].sender_id = Me
    /\ sendLog = "done"


\* Positions of the chat area that hold rows fetched by the history query.
HistoryPart(cm) == {k \in DOMAIN cm : cm[k].via = "history"}

Ascending(ids) == \A i, j \in DOMAIN ids : i < j => ids[i] < ids[j]

\* The page's only openConversation call has completed: no item was clicked
\* and the send handler is installed.
SingleCallDone ==
  view.kind = "messages" /\ clicks = 0 /\ view.onsubmit # NoHandler

Mine ==
  {i \in DOMAIN messages :
     messages[i].sender_id = Me \/ messages[i].receiver_id = Me}

Conversations == {messages[i].conversation_id : i \in Mine}

Latest(c) ==
  CHOOSE i \in Mine :
    /\ messages[i].conversation_id = c
    /\ \A j \in Mine : messages[j].conversation_id = c => j <= i

\* loadConversations has returned without an error.
ListLoaded ==
  /\ view.kind = "messages"
  /\ notifications = 0
  /\ \A t \in Suspended : t.kind # "renderMessagesPage"

\* C12: once loadConversations has returned without an error, the list
\* holds every conversation of the user, each exactly once, ordered by the
\* creation time of its most recent message, newest first.
ConversationsListedOnceNewestFirst ==
  ListLoaded =>
    LET l == view.convList
    IN  /\ {l[k].cId : k \in DOMAIN l} = Conversations
        /\ \A j, k \in DOMAIN l :
              j < k => /\ l[j].cId # l[k].cId
                       /\ Latest(l[j].cId) > Latest(l[k].cId)

\* Two conversations are listed, and the one listed first also has the
\* oldest row of the store.
ConversationsListedWitness ==
  /\ ListLoaded
  /\ Len(messages) = 3
  /\ Len(view.convList) = 2
  /\ messages[1].conversation_id = view.convList[1].cId
  /\ messages[3].conversation_id = view.convList[1].cId

Dispatches == page' = page + 1

\* handleRoute requests an unsubscribe only when the handle is held;
\* whether the awaited unsubscribe resolves or rejects, the resumed
\* handleRoute invokes the page controller of the destination; and the handle
\* is null whenever a page controller is invoked.
RoutesAfterTeardown ==
  /\ \A h \in Hashes :
       navigate(h) =>
         IF currentChatSubscription = 0
         THEN feeds' = feeds /\ Dispatches
         ELSE feeds' = unsubscribe(feeds, currentChatSubscription)
  /\ \A t \in Suspended : (handleRoute(t) => Dispatches)
  /\ (Dispatches => currentChatSubscription' = 0)

\* C14: navigation is never blocked by teardown: every step of the
\* application routes after teardown as RoutesAfterTeardown says.
TeardownNeverBlocksNavigation == [][RoutesAfterTeardown]_vars

\* The feed of the messages page failed to unsubscribe, and yet the page
\* after it is rendered with a null handle: the session had two navigations
\* and no click, and the only feed ever subscribed was torn down by the
\* second navigation.
TeardownThrewWitness ==
  /\ Len(feeds) = 1
  /\ feeds[1].state = "failed"
  /\ feeds[1].page = 2
  /\ page = 3
  /\ clicks = 0
  /\ currentChatSubscription = 0


\* The openConversation call t, resumed from its teardown, goes on to fetch
\* the counterpart (and from there to the history and the new feed).
GoesOn(t) ==
  tasks' = Add(Remove(tasks, t),
               [t EXCEPT !.pc = "user", !.otherId = otherIdOf(t.cId, Me)])

\* C15: openConversation swallows an error of the old feed's teardown:
\* whether the awaited unsubscribe resolves or rejects, the call goes on to
\* load the history and to subscribe the requested conversation.
OpenSwallowsTeardownError ==
  [][\A t \in Suspended : (openConversationUnsubscribed(t) => GoesOn(t))]_vars

\* Some call is suspended at `await currentChatSubscription.unsubscribe()`.
ClosePending == \E t \in Suspended : t.pc = "unsub"

\* No feed is subscribed while a close is pending, and a close that resumes
\* clears the handle only while it still references the feed it closed.
CloseThenOpen ==
  /\ (Len(feeds') > Len(feeds) => ~ClosePending)
  /\ \A t \in Suspended :
       (t.pc = "unsub" /\ Remove(tasks, t) \sqsubseteq tasks'
          /\ currentChatSubscription # 0 /\ currentChatSubscription' = 0)
         => currentChatSubscription = t.feed

\* C16: close and open never interleave: no new feed is established while
\* an unsubscribe request for a previous feed is pending, and a pending close
\* never clears the handle of a feed opened after that close started.
CloseAndOpenNeverInterleave == [][CloseThenOpen]_vars


\* C17: whatever openConversation calls were made on the messages page, no
\* inserted message is appended to its chat area by the feeds more than
\* once.
InsertAppendedAtMostOnce ==
  view.kind = "messages" =>
    \A j, k \in DOMAIN view.chatMessages :
      (j < k /\ view.chatMessages[j].via = "feed"
             /\ view.chatMessages[k].via = "feed")
        => view.chatMessages[j].id # view.chatMessages[k].id


\* C18: message records are immutable: every step of the client leaves each
\* stored record in place and unchanged; the table only grows.
MessagesOnlyGrow ==
  [][/\ Len(messages') >= Len(messages)
     /\ SubSeq(messages', 1, Len(messages)) = messages]_vars

\* The user has sent a message: it is stored after the record that was there
\* before.
MessagesGrewWitness ==
  /\ Len(messages) = Len(InitMessages) + 1
  /\ messages[Len(messages)].sender_id = Me
  /\ sendLog = "done"


\* C19: the admin page is rendered only for a signed-in user whose own users
\* row carries the admin flag, whatever the session did before.
AdminPageOnlyForAdmins ==
  rendered.route = "admin" => rendered.user \in Admins


\* handleRoute runs in this step: from a hashchange event, from a signed-out
\* session change, or from a session change resuming with the profile.
Routing ==
  \/ \E t \in Suspended : hashchange(t) \/ profileFetched(t)
  \/ authChange(Null)

\* handleRoute, run with no user on a protected route, invokes no controller
\* and sets the hash to login; no step invokes a protected route's controller
\* with no user; and the hashchange event handled on the login hash renders
\* the login page without a further redirect.
GuardsProtectedRoutes ==
  /\ (Routing /\ currentUser' = Null /\ hash.route \in Protected)
       => /\ hash' = [route |-> "login", id |-> Null]
          /\ hashchangeEvent \in BagToSet(tasks')
          /\ UNCHANGED <<page, rendered>>
  /\ (page' # page /\ rendered'.route \in Protected) => currentUser' # Null
  /\ \A t \in Suspended :
       (hashchange(t) /\ hash.route = "login")
         => /\ rendered'.route = "login"
            /\ hash' = hash
            /\ tasks' = Remove(tasks, t)

\* C20: with no user authenticated, routing to a protected route never
\* invokes that route's controller: the hash is set to login instead, and
\* routing settles on the login page after that single redirect.
SignedOutIsRedirectedToLogin == [][GuardsProtectedRoutes]_vars

\* A signed-out visitor went to a protected route, was notified once, and
\* the login page is rendered with nothing left pending.
RedirectedToLoginWitness ==
  /\ currentUser = Null
  /\ navs = 1
  /\ authEvents = 0
  /\ notifications = 1
  /\ hash.route = "login"
  /\ rendered = [route |-> "login", user |-> Null]
  /\ tasks = EmptyBag


\* The address has exactly one '@' and what follows it ends in ".ca" in any
\* letter case.
CaAddress(e) ==
  /\ Cardinality({i \in DOMAIN e : e[i] = "@"}) = 1
  /\ Len(e) >= 3
  /\ e[Len(e) - 2] = "."
  /\ e[Len(e) - 1] \in {"c", "C"}
  /\ e[Len(e)] \in {"a", "A"}
  /\ \E i \in 1..(Len(e) - 3) : e[i] = "@"

\* C21: the sign-up request and the users insert are issued only for an
\* address with exactly one '@' whose domain ends in '.ca' in any letter
\* case and with every required field filled; otherwise nothing is sent.
SignUpOnlyForCaAddresses ==
  signup.step # "form" =>
    IF /\ CaAddress(signup.email)
       /\ ~Blank(signup.fullName)
       /\ ~Blank(signup.school)
       /\ signup.password # <<>>
    THEN /\ signup.requests # <<>>
         /\ \A k \in DOMAIN signup.requests :
              signup.requests[k].email = signup.email
    ELSE signup.requests = <<>>

\* An upper-case .CA address was accepted and both requests were issued.
SignUpWitness ==
  /\ Len(signup.requests) = 2
  /\ signup.requests[2].to = "users"
  /\ signup.email[Len(signup.email)] = "A"


\* The ratings given to the listings of owner u, and their sum.
RatingsOf(u) ==
  {k \in DOMAIN ratings : listings[ratings[k].listing_id].owner_id = u}

RECURSIVE SumOf(_)
SumOf(ks) ==
  IF ks = {} THEN 0
  ELSE LET k == CHOOSE x \in ks : TRUE
       IN  ratings[k].rating + SumOf(ks \ {k})

\* C22: once every submitted rating has been processed, the user record of
\* each listing owner (what the profile page displays) carries the sum and
\* the number of the ratings given to that owner's listings.
OwnerAccumulatesRatings ==
  tasks = EmptyBag =>
    \A u \in Users :
      /\ users[u].rating_sum = SumOf(RatingsOf(u))
      /\ users[u].rating_count = Cardinality(RatingsOf(u))


\* The text contains the term, letter case aside.
Contains(text, term) ==
  \E i \in 0..(Len(text) - Len(term)) :
    \A k \in 1..Len(term) : LowerChar(text[i + k]) = LowerChar(term[k])

\* C23: for a non-empty search term the rendered results are exactly the
\* listings that are not deleted, satisfy the category filter, and whose
\* title or description contains the term whatever the letter case, those
\* that match in the description only included.
SearchMatchesTitleOrDescription ==
  (marketplace.step = "rendered" /\ ~Blank(marketplace.searchInput)) =>
    {marketplace.grid[k] : k \in DOMAIN marketplace.grid} =
      {i \in DOMAIN listings :
         /\ ~listings[i].is_deleted
         /\ marketplace.category # <<>> =>
              listings[i].category = marketplace.category
         /\ \/ Contains(listings[i].title, marketplace.searchInput)
            \/ /\ listings[i].description # Null
               /\ Contains(listings[i].description, marketplace.searchInput)}


\* No handleRoute or openConversation call is suspended at an await.
NoCallInProgress ==
  \A t \in Suspended : t.kind \notin {"handleRoute", "openConversation"}

\* C24: no feed is leaked: whenever no handleRoute or openConversation call
\* is in progress, every feed still subscribed is the one the handle
\* references, and none is subscribed when the handle is null.
NoFeedLeaked ==
  NoCallInProgress => \A f \in LiveFeeds : f = currentChatSubscription


\* Every openConversation call made on the messages page shown has run to
\* its end: none is suspended, none was ended by a rejected unsubscribe, and
\* the send handler is installed.
CallsCompleted ==
  /\ view.kind = "messages"
  /\ view.onsubmit # NoHandler
  /\ NoCallInProgress
  /\ \A t \in Suspended : t.kind # "renderMessagesPage"
  /\ \A f \in DOMAIN feeds : feeds[f].state # "failed"

\* The conversation of the rows the chat area shows as history is c.
HistoryOf(c) ==
  \A k \in HistoryPart(view.chatMessages) :
    messages[view.chatMessages[k].id].conversation_id = c

\* C25: when the openConversation calls of a messages page have all
\* completed, the history displayed, the send handler and the handle belong
\* to the conversation requested last.
LastRequestWins ==
  CallsCompleted =>
    /\ view.onsubmit.cId = view.requested
    /\ HistoryOf(view.requested)
    /\ currentChatSubscription # 0
    /\ feeds[currentChatSubscription].conv = view.requested

\* C26: when the openConversation calls of a messages page have all
\* completed, the chat title names the counterpart the send handler sends
\* to, and the history displayed is that of the handler's conversation.
TitleHistoryAndReceiverAgree ==
  (CallsCompleted /\ view.onsubmit.otherId \in Users) =>
    /\ view.chatTitle = view.onsubmit.otherId
    /\ HistoryOf(view.onsubmit.cId)


\* Nothing is on its way to the chat area: every feed has delivered what it
\* was notified of.
FeedsDrained == \A f \in DOMAIN feeds : feeds[f].queue = <<>>

\* C27: no message is lost between the history load and the start of the
\* feed: once the page's openConversation call has completed and the feeds
\* have delivered all they hold, every stored message of the open
\* conversation is in the chat area.
NoMessageLostBeforeFeed ==
  (SingleCallDone /\ FeedsDrained) =>
    \A i \in DOMAIN messages :
      messages[i].conversation_id = view.onsubmit.cId
        => \E k \in DOMAIN view.chatMessages : view.chatMessages[k].id = i

====
